---- MODULE Spec2Model ----
(***************************************************************************)
(* minigit.py: a content-addressed object store (blob / tree / commit),    *)
(* the tree builder, the commit chain, the verifier, the revocation list   *)
(* and checkout, as a state machine over the files of one repository.      *)
(*                                                                         *)
(* Bytes are modelled by their JSON reading: [json |-> "invalid", ...] is  *)
(* a byte string json.loads rejects, "list" / "dict" / "number" is what it *)
(* decodes to.  SHA-256 is modelled as collision free: the digest of b is  *)
(* the pair <<"sha256", b>>.                                               *)
(***************************************************************************)
EXTENDS Integers, Sequences, FiniteSets, TLC

VARIABLES repo,      \* TRUE iff the directory .minigit exists
          objects,   \* .minigit/objects: file name (digest) -> stored bytes
          HEAD,      \* refs.json["HEAD"]: a digest or None
          index,     \* .minigit/index: list of staged paths
          revoked,   \* .minigit/revoked.json: list of revoked digests
          files,     \* working tree: path -> bytes of the file, or Dir
          tampered,  \* number of out-of-band writes to .minigit/objects
          out,       \* what the last command printed
          procs      \* commands running at the same time: process -> its position and locals

vars == <<repo, objects, HEAD, index, revoked, files, tampered, out, procs>>

\* ---------------------------------------------------------------- bounds
MaxCommits == 2       \* commit objects the commit command may create
MaxRevoked == 1       \* entries the revoke command may append
MaxTamper == 1        \* out-of-band modifications of stored objects

\* The interpreter's recursion limit (1000 frames by default) lies far above the
\* depth of any history or tree the bounds allow; a cyclic structure reaches it.
RecursionLimit == MaxCommits + 4

\* ---------------------------------------------------------------- values
None == <<"None">>
Dir == [dir |-> TRUE]

Text(t) == [json |-> "invalid", text |-> t]
Contents == {Text("hello"), Text("x")}
Garbage == Text("garbage")
Number == [json |-> "number", val |-> 5]

Paths == {<<"a">>, <<"d", "b">>}
Edits == {<< <<"a">>, Text("hello") >>, << <<"a">>, Text("x") >>, << <<"d", "b">>, Text("x") >>}
AddArgs == {<< <<"d", "b">> >>, << <<"d", "b">>, <<"a">> >>,
            << <<".", "a">> >>, << <<".minigit", "index">> >>}
Messages == {"first"}
Times == {"T1"}

NameOrder == <<".", ".minigit", "a", "b", "d">>
NameRank(n) == CHOOSE i \in 1..Len(NameOrder) : NameOrder[i] = n
NameLess(m, n) == NameRank(m) < NameRank(n)

RECURSIVE PathLess(_, _)
PathLess(p, q) ==
    IF p = <<>> THEN q # <<>>
    ELSE IF q = <<>> THEN FALSE
    ELSE IF p[1] = q[1] THEN PathLess(Tail(p), Tail(q))
    ELSE NameLess(p[1], q[1])

Range(s) == {s[i] : i \in 1..Len(s)}
sorted(paths) == SortSeq(paths, PathLess)

\* ---------------------------------------------------------------- helpers
sha256_bytes(data) == <<"sha256", data>>

exists(fs, path) == path \in DOMAIN fs
isfile(fs, path) == path \in DOMAIN fs /\ fs[path] # Dir
isdir(fs, path) == path = <<>> \/ (path \in DOMAIN fs /\ fs[path] = Dir)

normpath(path) == SelectSeq(path, LAMBDA s : s # ".")
path_in_repo(path) == normpath(path) = <<>> \/ normpath(path)[1] # ".minigit"

json_dumps(kind, obj) == [json |-> kind, val |-> obj]
json_ok(raw) == raw.json # "invalid"
json_loads(raw) == raw

\* The result of a call that writes: the value returned and the store after it.
\* Mutant: no existence test and the file opened for appending, so a second put
\* of the same content lengthens the stored bytes.
write_object_append(objs, data) ==
    LET h == sha256_bytes(data)
    IN [hash |-> h,
        objects |-> IF h \in DOMAIN objs THEN [objs EXCEPT ![h] = Text("appended")]
                    ELSE objs @@ (h :> data)]

write_object(objs, data) ==
    LET h == sha256_bytes(data)
    IN [hash |-> h,
        objects |-> IF h \in DOMAIN objs THEN objs ELSE objs @@ (h :> data)]

has_object(objs, hash_hex) == hash_hex \in DOMAIN objs
read_object(objs, hash_hex) == objs[hash_hex]

hash_tree_obj(objs, tree_obj) == write_object(objs, json_dumps("list", tree_obj))
\* Mutant: the digest is computed and returned but the payload is never stored.
hash_commit_obj_unwritten(objs, commit_obj) ==
    [hash |-> sha256_bytes(json_dumps("dict", commit_obj)), objects |-> objs]
hash_commit_obj(objs, commit_obj) == write_object(objs, json_dumps("dict", commit_obj))

\* Mutant: the membership test reads the wrong list and never finds the commit.
is_revoked_never(rev, commit_hash) == commit_hash \in Range(<<>>)
is_revoked(rev, commit_hash) == commit_hash \in Range(rev)

\* What a command printed, reduced to the command and the kind of message.
Printed(cmd, code) == [cmd |-> cmd, code |-> code]

\* ---------------------------------------------------------------- init
Init ==
    /\ repo = FALSE
    /\ objects = <<>>
    /\ HEAD = None
    /\ index = <<>>
    /\ revoked = <<>>
    /\ files = <<>>
    /\ tampered = 0
    /\ out = Printed("start", "ok")
    /\ procs = <<>>

\* Mutant: no test for an existing repository, so init rewrites refs.json,
\* revoked.json and index of a repository in use.
cmd_init_again ==
    /\ repo' = TRUE
    /\ HEAD' = None
    /\ revoked' = <<>>
    /\ index' = <<>>
    /\ out' = Printed("init", "ok")
    /\ UNCHANGED <<objects, files, tampered, procs>>

cmd_init ==
    /\ IF repo
         THEN /\ out' = Printed("init", "AlreadyExists")
              /\ UNCHANGED <<repo, objects, HEAD, index, revoked>>
         ELSE /\ repo' = TRUE
              /\ objects' = <<>>
              /\ HEAD' = None
              /\ revoked' = <<>>
              /\ index' = <<>>
              /\ out' = Printed("init", "ok")
    /\ UNCHANGED <<files, tampered, procs>>

\* ---------------------------------------------------------------- add
RECURSIVE add_files(_, _, _)
add_files(fs, idx, flist) ==
    IF flist = <<>> THEN idx
    ELSE LET f == Head(flist)
             r == normpath(f)
         IN IF ~exists(fs, r) /\ path_in_repo(f) THEN add_files(fs, idx, Tail(flist))
            ELSE IF ~path_in_repo(f) THEN add_files(fs, idx, Tail(flist))
            ELSE IF r \notin Range(idx) THEN add_files(fs, Append(idx, r), Tail(flist))
            ELSE add_files(fs, idx, Tail(flist))

cmd_add(flist) ==
    /\ repo
    /\ index' = sorted(add_files(files, index, flist))
    /\ out' = Printed("add", "ok")
    /\ UNCHANGED <<repo, objects, HEAD, revoked, files, tampered, procs>>

\* ---------------------------------------------------------------- tree builder
\* A Python dict: the keys in insertion order, each with its value.
dict_has(d, k) == \E i \in 1..Len(d) : d[i].name = k
dict_get(d, k) == d[CHOOSE i \in 1..Len(d) : d[i].name = k].val
dict_set(d, k, v) ==
    IF dict_has(d, k)
      THEN [i \in 1..Len(d) |-> IF d[i].name = k THEN [name |-> k, val |-> v] ELSE d[i]]
      ELSE Append(d, [name |-> k, val |-> v])
dict_keys(d) == [i \in 1..Len(d) |-> d[i].name]

\* cur = cur.setdefault(p, {}) along parts[:-1], then cur[parts[-1]] = leaf
RECURSIVE tree_map_put(_, _, _)
tree_map_put(node, parts, leaf) ==
    IF Len(parts) = 1 THEN dict_set(node, parts[1], leaf)
    ELSE LET sub == IF dict_has(node, parts[1]) THEN dict_get(node, parts[1]).node
                    ELSE <<>>
         IN dict_set(node, parts[1],
                     [type |-> "dir", node |-> tree_map_put(sub, Tail(parts), leaf)])

\* The first loop of build_tree_from_index: open() raises on a path that is no file.
RECURSIVE read_index_files(_, _, _, _)
read_index_files(fs, objs, tree_map, index_files) ==
    IF index_files = <<>> THEN [ok |-> TRUE, objects |-> objs, tree_map |-> tree_map]
    ELSE LET path == Head(index_files)
         IN IF ~isfile(fs, path)
              THEN [ok |-> FALSE, objects |-> objs, tree_map |-> tree_map]
              ELSE LET w == write_object(objs, fs[path])
                   IN read_index_files(fs, w.objects,
                          tree_map_put(tree_map, path, [type |-> "blob", hash |-> w.hash]),
                          Tail(index_files))

\* Mutant: the entries are emitted in the dict's insertion order.
node_names_unsorted(node) == dict_keys(node)
node_names(node) == SortSeq(dict_keys(node), NameLess)

RECURSIVE build_node(_, _), build_entries(_, _, _, _)
build_entries(objs, node, names, entries) ==
    IF names = <<>> THEN [objects |-> objs, entries |-> entries]
    ELSE LET name == Head(names)
             val == dict_get(node, name)
         IN IF val.type = "blob"
              THEN build_entries(objs, node, Tail(names),
                       Append(entries, [name |-> name, type |-> "blob",
                                        hash |-> val.hash, mode |-> "100644"]))
              ELSE LET sub == build_node(objs, val.node)
                   IN build_entries(sub.objects, node, Tail(names),
                          Append(entries, [name |-> name, type |-> "tree",
                                           hash |-> sub.hash, mode |-> "40000"]))

build_node(objs, node) ==
    LET r == build_entries(objs, node, node_names(node), <<>>)
        w == hash_tree_obj(r.objects, r.entries)
    IN [hash |-> w.hash, objects |-> w.objects, entries |-> r.entries]

build_tree_from_index(fs, objs, index_files) ==
    LET r == read_index_files(fs, objs, <<>>, index_files)
    IN IF ~r.ok THEN [ok |-> FALSE, objects |-> r.objects, hash |-> None]
       ELSE LET b == build_node(r.objects, r.tree_map)
            IN [ok |-> TRUE, objects |-> b.objects, hash |-> b.hash]

\* ---------------------------------------------------------------- commit
IsCommitDigest(d) == d # None /\ d[2].json = "dict"
CommitsMade(objs) == Cardinality({d \in DOMAIN objs : IsCommitDigest(d)})

cmd_commit(message, now) ==
    /\ repo
    /\ CommitsMade(objects) < MaxCommits
    /\ IF index = <<>>
         THEN /\ out' = Printed("commit", "EmptyStagingArea")
              /\ UNCHANGED <<objects, HEAD>>
         ELSE LET b == build_tree_from_index(files, objects, index)
                  commit_obj == [tree |-> b.hash, parent |-> HEAD, message |-> message,
                                 time |-> now, revoked |-> FALSE]
                  w == hash_commit_obj(b.objects, commit_obj)
              IN IF ~b.ok
                   THEN /\ objects' = b.objects
                        /\ out' = Printed("commit", "FileNotFoundError")
                        /\ UNCHANGED HEAD
                   ELSE /\ objects' = w.objects
                        /\ HEAD' = w.hash
                        /\ out' = Printed("commit", "ok")
    /\ UNCHANGED <<repo, index, revoked, files, tampered, procs>>

\* ---------------------------------------------------------------- checkout
write_file(fs, path, data) ==
    [q \in DOMAIN fs \cup {path} |-> IF q = path THEN data ELSE fs[q]]
makedirs(fs, path) ==
    [q \in DOMAIN fs \cup {path} |-> IF q = path THEN Dir ELSE fs[q]]

Raised(fs, err) == [ok |-> FALSE, files |-> fs, err |-> err]

\* _checkout(tree_hash, cur_path) at recursion depth `depth`; an exception leaves
\* the files written so far.
RECURSIVE _checkout(_, _, _, _, _), checkout_entries(_, _, _, _, _)
checkout_entries(objs, fs, entries, cur_path, depth) ==
    IF entries = <<>> THEN [ok |-> TRUE, files |-> fs, err |-> "none"]
    ELSE LET ent == Head(entries)
             out_path == Append(cur_path, ent.name)
         IN IF ent.type = "blob"
              THEN IF ~has_object(objs, ent.hash) THEN Raised(fs, "FileNotFoundError")
                   ELSE IF isdir(fs, out_path) THEN Raised(fs, "IsADirectoryError")
                   ELSE checkout_entries(objs,
                            write_file(fs, out_path, read_object(objs, ent.hash)),
                            Tail(entries), cur_path, depth)
            ELSE IF ent.type = "tree"
              THEN IF isfile(fs, out_path) THEN Raised(fs, "FileExistsError")
                   ELSE LET sub == _checkout(objs, makedirs(fs, out_path), ent.hash,
                                             out_path, depth + 1)
                        IN IF ~sub.ok THEN sub
                           ELSE checkout_entries(objs, sub.files, Tail(entries),
                                                 cur_path, depth)
            ELSE Raised(fs, "ValueError")

_checkout(objs, fs, tree_hash, cur_path, depth) ==
    IF depth > RecursionLimit THEN Raised(fs, "RecursionError")
    ELSE IF ~has_object(objs, tree_hash) THEN Raised(fs, "FileNotFoundError")
    ELSE LET raw == read_object(objs, tree_hash)
         IN IF ~json_ok(raw) THEN Raised(fs, "JSONDecodeError")
            ELSE IF json_loads(raw).json # "list" THEN Raised(fs, "TypeError")
            ELSE checkout_entries(objs, fs, json_loads(raw).val, cur_path, depth)

checkout_tree(objs, fs, tree_hash) == _checkout(objs, fs, tree_hash, <<>>, 1)

\* refs["HEAD"] = commit_hash is reached only when checkout_tree has returned.
\* Mutant: HEAD is written before the tree is materialised.
head_after_checkout_early(head, commit_hash, r) == commit_hash
head_after_checkout(head, commit_hash, r) == IF r.ok THEN commit_hash ELSE head

HeadWords == {<<"HEAD">>}
lower(target) == IF target \in HeadWords THEN <<"head">> ELSE target

cmd_checkout(target) ==
    /\ repo
    /\ LET head == HEAD
           to_head == target = None \/ lower(target) = <<"head">>
           commit_hash == IF to_head THEN head ELSE target
       IN IF to_head /\ head = None
            THEN /\ out' = Printed("checkout", "NoCommitsYet")
                 /\ UNCHANGED <<HEAD, files>>
          ELSE IF is_revoked(revoked, commit_hash)
            THEN /\ out' = Printed("checkout", "RevokedCommit")
                 /\ UNCHANGED <<HEAD, files>>
          ELSE IF ~has_object(objects, commit_hash)
            THEN /\ out' = Printed("checkout", "CommitNotFound")
                 /\ UNCHANGED <<HEAD, files>>
          ELSE LET raw == read_object(objects, commit_hash)
               IN IF ~json_ok(raw)
                    THEN /\ out' = Printed("checkout", "JSONDecodeError")
                         /\ UNCHANGED <<HEAD, files>>
                  ELSE IF json_loads(raw).json # "dict"
                    THEN /\ out' = Printed("checkout", "TypeError")
                         /\ UNCHANGED <<HEAD, files>>
                  ELSE LET commit == json_loads(raw).val
                           r == checkout_tree(objects, files, commit.tree)
                       IN /\ files' = r.files
                          /\ HEAD' = head_after_checkout(head, commit_hash, r)
                          /\ out' = Printed("checkout", IF r.ok THEN "ok" ELSE r.err)
    /\ UNCHANGED <<repo, objects, index, revoked, tampered, procs>>

\* ---------------------------------------------------------------- verify
\* A finding: the message, the digest it reports and the other digest it quotes.
Finding(msg, obj, ref) == [msg |-> msg, obj |-> obj, ref |-> ref]

Audit(errors) == [raised |-> "none", ok |-> errors = <<>>, errors |-> errors]
AuditFailed(errors) == [raised |-> "none", ok |-> FALSE, errors |-> errors]
AuditRaised(err) == [raised |-> err, ok |-> FALSE, errors |-> <<>>]

RECURSIVE verify_tree(_, _, _), verify_entries(_, _, _, _, _)
verify_entries(objs, tree_hash, entries, errors, depth) ==
    IF entries = <<>> THEN Audit(errors)
    ELSE LET ent == Head(entries)
             typ == ent.type
             h == ent.hash
         IN IF typ = "blob"
              THEN IF ~has_object(objs, h)
                     THEN verify_entries(objs, tree_hash, Tail(entries),
                              Append(errors, Finding("Missing blob object", h, tree_hash)),
                              depth)
                   ELSE IF sha256_bytes(read_object(objs, h)) # h
                     THEN verify_entries(objs, tree_hash, Tail(entries),
                              Append(errors, Finding("Blob object content mismatch", h, None)),
                              depth)
                   ELSE verify_entries(objs, tree_hash, Tail(entries), errors, depth)
            ELSE IF typ = "tree"
              THEN LET sub == verify_tree(objs, h, depth + 1)
                   IN IF sub.raised # "none" THEN sub
                      ELSE verify_entries(objs, tree_hash, Tail(entries),
                               errors \o sub.errors, depth)
            ELSE verify_entries(objs, tree_hash, Tail(entries),
                     Append(errors, Finding("Unknown entry type", tree_hash, None)), depth)

verify_tree(objs, tree_hash, depth) ==
    IF depth > RecursionLimit THEN AuditRaised("RecursionError")
    ELSE IF ~has_object(objs, tree_hash)
      THEN AuditFailed(<<Finding("Missing tree object", tree_hash, None)>>)
    ELSE LET raw == read_object(objs, tree_hash)
             computed == sha256_bytes(raw)
             errors == IF computed # tree_hash
                         THEN <<Finding("Tree object content mismatch", tree_hash, computed)>>
                         ELSE <<>>
         IN IF ~json_ok(raw)
              THEN AuditFailed(Append(errors,
                       Finding("Tree object JSON decode error", tree_hash, None)))
            ELSE IF json_loads(raw).json = "number" THEN AuditRaised("TypeError")
            ELSE IF json_loads(raw).json = "dict" THEN AuditRaised("AttributeError")
            ELSE verify_entries(objs, tree_hash, json_loads(raw).val, errors, depth)

RECURSIVE verify_commit(_, _, _, _)
verify_commit(objs, commit_hash, visited, depth) ==
    IF depth > RecursionLimit THEN AuditRaised("RecursionError")
    ELSE IF ~has_object(objs, commit_hash)
      THEN AuditFailed(<<Finding("Missing commit object", commit_hash, None)>>)
    ELSE LET raw == read_object(objs, commit_hash)
             errors0 == IF sha256_bytes(raw) # commit_hash
                          THEN <<Finding("Commit object content mismatch", commit_hash, None)>>
                          ELSE <<>>
         IN IF ~json_ok(raw)
              THEN AuditFailed(Append(errors0,
                       Finding("Commit object JSON decode error", commit_hash, None)))
            ELSE IF json_loads(raw).json # "dict" THEN AuditRaised("AttributeError")
            ELSE LET commit == json_loads(raw).val
                     t == IF commit.tree = None
                            THEN Audit(<<Finding("Commit missing tree field",
                                                 commit_hash, None)>>)
                            ELSE verify_tree(objs, commit.tree, depth + 1)
                     errors1 == errors0 \o t.errors
                     parent == commit.parent
                 IN IF t.raised # "none" THEN t
                    ELSE IF parent = None THEN Audit(errors1)
                    ELSE IF parent \in visited
                      THEN AuditFailed(Append(errors1,
                               Finding("Cycle detected in commit parents at", parent, None)))
                    ELSE LET p == verify_commit(objs, parent, visited \cup {parent},
                                                depth + 1)
                         IN IF p.raised # "none" THEN p
                            ELSE Audit(errors1 \o p.errors)

\* The set `visited` as a call of verify_commit leaves it: visited.add(parent)
\* changes the set the caller passed, and a call without the argument is given
\* the one set created when the function was defined.
RECURSIVE verify_commit_visited(_, _, _, _)
verify_commit_visited(objs, commit_hash, visited, depth) ==
    IF depth > RecursionLimit THEN visited
    ELSE IF ~has_object(objs, commit_hash) THEN visited
    ELSE LET raw == read_object(objs, commit_hash)
         IN IF ~json_ok(raw) \/ json_loads(raw).json # "dict" THEN visited
            ELSE LET commit == json_loads(raw).val
                     t == IF commit.tree = None THEN Audit(<<>>)
                          ELSE verify_tree(objs, commit.tree, depth + 1)
                     parent == commit.parent
                 IN IF t.raised # "none" \/ parent = None \/ parent \in visited
                      THEN visited
                      ELSE verify_commit_visited(objs, parent, visited \cup {parent},
                                                 depth + 1)

\* The call cmd_verify makes: verify_commit(head, set([head])).
\* Mutant: a revoked commit is reported as a finding before anything is read.
verify_top_trusting(commit_hash) ==
    IF is_revoked(revoked, commit_hash)
      THEN AuditFailed(<<Finding("Commit is revoked", commit_hash, None)>>)
      ELSE verify_commit(objects, commit_hash, {commit_hash}, 1)
verify_top(commit_hash) == verify_commit(objects, commit_hash, {commit_hash}, 1)

\* Mutant: an audit that fails also resets HEAD, so that the commit found
\* damaged is no longer the current one.
cmd_verify_resetting ==
    /\ repo
    /\ LET r == verify_top(HEAD)
       IN IF HEAD = None THEN out' = Printed("verify", "NoCommits") /\ UNCHANGED HEAD
          ELSE IF r.raised # "none" THEN out' = Printed("verify", r.raised) /\ UNCHANGED HEAD
          ELSE IF r.ok THEN out' = Printed("verify", "OK") /\ UNCHANGED HEAD
          ELSE out' = Printed("verify", "FAILED") /\ HEAD' = None
    /\ UNCHANGED <<repo, objects, index, revoked, files, tampered, procs>>

cmd_verify ==
    /\ repo
    /\ LET head == HEAD
           r == verify_top(head)
       IN IF head = None THEN out' = Printed("verify", "NoCommits")
          ELSE IF r.raised # "none" THEN out' = Printed("verify", r.raised)
          ELSE IF r.ok THEN out' = Printed("verify", "OK")
          ELSE out' = Printed("verify", "FAILED")
    /\ UNCHANGED <<repo, objects, HEAD, index, revoked, files, tampered, procs>>

\* ---------------------------------------------------------------- log
\* The while loop of cmd_log, which has no exit on a parent cycle: `seen` is the
\* set of commits already printed, and meeting one again means the loop never ends.
RECURSIVE log_walk(_, _, _, _, _)
log_walk(objs, rev, cur, seen, lines) ==
    IF cur = None THEN [code |-> "ok", lines |-> lines]
    ELSE IF cur \in seen THEN [code |-> "NeverReturns", lines |-> lines]
    ELSE IF ~has_object(objs, cur) THEN [code |-> "MissingCommit", lines |-> lines]
    ELSE LET raw == read_object(objs, cur)
         IN IF ~json_ok(raw) THEN [code |-> "JSONDecodeError", lines |-> lines]
            ELSE IF json_loads(raw).json # "dict"
              THEN [code |-> "AttributeError", lines |-> lines]
            ELSE log_walk(objs, rev, json_loads(raw).val.parent, seen \cup {cur},
                          Append(lines, [commit |-> cur, revoked |-> is_revoked(rev, cur)]))

cmd_log ==
    /\ repo
    /\ LET head == HEAD
           r == log_walk(objects, revoked, head, {}, <<>>)
       IN IF head = None THEN out' = Printed("log", "NoCommitsYet")
          ELSE out' = Printed("log", r.code)
    /\ UNCHANGED <<repo, objects, HEAD, index, revoked, files, tampered, procs>>

\* ---------------------------------------------------------------- status
cmd_status ==
    /\ repo
    /\ LET head == HEAD
           raw == read_object(objects, head)
           b == build_tree_from_index(files, objects, index)
       IN IF head = None
            THEN /\ out' = Printed("status", "NoHead")
                 /\ UNCHANGED objects
          ELSE IF ~has_object(objects, head) \/ ~json_ok(raw) \/ json_loads(raw).json # "dict"
            THEN /\ out' = Printed("status", "CouldNotCompare")
                 /\ UNCHANGED objects
          ELSE IF index = <<>>
            THEN /\ out' = Printed("status", "Differs")
                 /\ UNCHANGED objects
          ELSE /\ objects' = b.objects
               /\ out' = Printed("status",
                                 IF ~b.ok THEN "CouldNotCompare"
                                 ELSE IF b.hash # json_loads(raw).val.tree THEN "Differs"
                                 ELSE "Matches")
    /\ UNCHANGED <<repo, HEAD, index, revoked, files, tampered, procs>>

\* ---------------------------------------------------------------- revoke
cmd_revoke(commit_hash) ==
    /\ repo
    /\ Len(revoked) < MaxRevoked \/ ~has_object(objects, commit_hash)
                                 \/ commit_hash \in Range(revoked)
    /\ IF ~has_object(objects, commit_hash)
         THEN /\ out' = Printed("revoke", "CommitNotFound")
              /\ UNCHANGED revoked
       ELSE IF commit_hash \in Range(revoked)
         THEN /\ out' = Printed("revoke", "AlreadyRevoked")
              /\ UNCHANGED revoked
       ELSE /\ revoked' = Append(revoked, commit_hash)
            /\ out' = Printed("revoke", "ok")
    /\ UNCHANGED <<repo, objects, HEAD, index, files, tampered, procs>>

\* Digests a user can type: those of the stored objects and one of no object.
Unknown == sha256_bytes(Text("unknown"))
Digests == DOMAIN objects \cup {Unknown}
CommitArgs == {d \in Digests : IsCommitDigest(d) \/ d = sha256_bytes(Text("x"))}
                 \cup {Unknown}

\* A command other than init outside a repository prints a notice and returns.
NotARepository ==
    /\ ~repo
    /\ \E c \in {"add", "commit", "log", "status", "checkout", "verify", "revoke"} :
          out' = Printed(c, "NotARepository")
    /\ UNCHANGED <<repo, objects, HEAD, index, revoked, files, tampered, procs>>

\* ---------------------------------------------------------------- the user's editor
parent_dirs(path) == {SubSeq(path, 1, k) : k \in 1..(Len(path) - 1)}

EditFile(path, data) ==
    /\ ~isdir(files, path)
    /\ \A d \in parent_dirs(path) : ~isfile(files, d)
    /\ files' = [q \in DOMAIN files \cup parent_dirs(path) \cup {path} |->
                    IF q = path THEN data
                    ELSE IF q \in parent_dirs(path) THEN Dir ELSE files[q]]
    /\ UNCHANGED <<repo, objects, HEAD, index, revoked, tampered, out, procs>>

\* rm -r path: the path and everything below it leave the working tree.
RemovePath(path) ==
    /\ exists(files, path)
    /\ files' = [q \in {r \in DOMAIN files :
                           ~(Len(r) >= Len(path) /\ SubSeq(r, 1, Len(path)) = path)} |->
                    files[q]]
    /\ UNCHANGED <<repo, objects, HEAD, index, revoked, tampered, out, procs>>

\* ---------------------------------------------------------------- tampering
\* Someone else writes to .minigit/objects: the bytes of one object file are
\* replaced (by junk, by a JSON number, by a copy of another object file, by the
\* same commit with another parent, or with a commit as both parent and tree, by
\* the same tree with an entry of another type), or the file is deleted.
Reparented(raw) ==
    IF raw.json # "dict" THEN {}
    ELSE {json_dumps("dict", [raw.val EXCEPT !.parent = p]) :
             p \in {d \in DOMAIN objects : IsCommitDigest(d)}}
Relinked(raw) ==
    IF raw.json # "dict" THEN {}
    ELSE {json_dumps("dict", [raw.val EXCEPT !.tree = p, !.parent = p]) :
             p \in {d \in DOMAIN objects : IsCommitDigest(d)}}
Retyped(raw) ==
    IF raw.json # "list" \/ raw.val = <<>> THEN {}
    ELSE {json_dumps("list", [raw.val EXCEPT ![1].type = "link"])}
TamperBytes(d) ==
    ({Garbage, Number} \cup {objects[e] : e \in DOMAIN objects}
       \cup Reparented(objects[d]) \cup Relinked(objects[d]) \cup Retyped(objects[d]))
      \ {objects[d]}

Tamper(d, raw) ==
    /\ repo
    /\ tampered < MaxTamper
    /\ d \in DOMAIN objects
    /\ raw \in TamperBytes(d)
    /\ objects' = [objects EXCEPT ![d] = raw]
    /\ tampered' = tampered + 1
    /\ UNCHANGED <<repo, HEAD, index, revoked, files, out, procs>>

Delete(d) ==
    /\ repo
    /\ tampered < MaxTamper
    /\ d \in DOMAIN objects
    /\ objects' = [e \in DOMAIN objects \ {d} |-> objects[e]]
    /\ tampered' = tampered + 1
    /\ UNCHANGED <<repo, HEAD, index, revoked, files, out, procs>>

\* ---------------------------------------------------------------- specifications
\* The commands and the user's editor; nobody else touches .minigit.
Next ==
    \/ cmd_init
    \/ NotARepository
    \/ \E flist \in AddArgs : cmd_add(flist)
    \/ \E m \in Messages, t \in Times : cmd_commit(m, t)
    \/ \E target \in CommitArgs \cup HeadWords \cup {None} : cmd_checkout(target)
    \/ \E d \in CommitArgs : cmd_revoke(d)
    \/ cmd_verify
    \/ cmd_log
    \/ cmd_status
    \/ \E e \in Edits : EditFile(e[1], e[2])

Spec == Init /\ [][Next]_vars

\* A history is committed, one object file is tampered with, and the repository
\* is then audited and checked out.
NextTamper ==
    \/ /\ tampered = 0
       /\ \/ cmd_init
          \/ \E flist \in AddArgs : cmd_add(flist)
          \/ \E m \in Messages, t \in Times : cmd_commit(m, t)
          \/ \E e \in Edits : EditFile(e[1], e[2])
    \/ \E d \in DOMAIN objects : \E raw \in TamperBytes(d) : Tamper(d, raw)
    \/ \E d \in DOMAIN objects : Delete(d)
    \/ /\ tampered > 0
       /\ \/ cmd_verify
          \/ \E target \in CommitArgs \cup {None} : cmd_checkout(target)
          \/ cmd_log
          \/ cmd_status

SpecTamper == Init /\ [][NextTamper]_vars

\* The tree builder on its own: a repository with any of the working trees
\* over BuildPaths and any set of them staged, in which commit and status run
\* the builder.
BuildPaths == {<<"a">>, <<"b">>, <<"d", "a">>, <<"d", "b">>}
BuildTrees ==
    {[q \in BuildPaths \cup {<<"d">>} |-> IF q = <<"d">> THEN Dir ELSE f[q]] :
        f \in [BuildPaths -> Contents]}
RECURSIVE SeqOf(_)
SeqOf(S) == IF S = {} THEN <<>>
            ELSE LET x == CHOOSE y \in S : TRUE IN <<x>> \o SeqOf(S \ {x})
Perms(seq) == {[i \in 1..Len(seq) |-> seq[f[i]]] : f \in Permutations(1..Len(seq))}

InitBuild ==
    /\ repo = TRUE
    /\ objects = <<>>
    /\ HEAD = None
    /\ index \in {sorted(SeqOf(S)) : S \in SUBSET BuildPaths}
    /\ revoked = <<>>
    /\ files \in BuildTrees
    /\ tampered = 0
    /\ out = Printed("init", "ok")
    /\ procs = <<>>

NextBuild ==
    \/ \E m \in Messages, t \in Times : cmd_commit(m, t)
    \/ cmd_status

SpecBuild == InitBuild /\ [][NextBuild]_vars

\* ---------------------------------------------------------------- processes
\* A command running beside others: where it is, its argument, what it has
\* loaded, what it returned, and whether it opened a file for writing.
Proc(cmd, pc, arg) ==
    [cmd |-> cmd, pc |-> pc, arg |-> arg, loc |-> <<>>, ret |-> None, wrote |-> FALSE]
Finished == \A p \in DOMAIN procs : procs[p].pc = "done"

\* An object file while it is written: f.write(data) reaches the file in two
\* chunks, each at the offset of the writing process. The file is the list of
\* the chunks it holds (0 where a write beyond the end left a hole); the list
\* <<1, 2>> is data itself.
chunks_of(content) == IF "chunks" \in DOMAIN content THEN content.chunks ELSE <<1, 2>>
file_of(data, chunks) ==
    IF chunks = <<1, 2>> THEN data
    ELSE [json |-> "invalid", text |-> "partial", chunks |-> chunks]

\* Mutant: the file is opened for appending, so every write goes to its end.
write_offset_append(chunks, k) == Len(chunks) + 1
write_offset(chunks, k) == k

write_chunk(chunks, k) ==
    LET at == write_offset(chunks, k)
        n == IF at > Len(chunks) THEN at ELSE Len(chunks)
    IN [i \in 1..n |-> IF i = at THEN k ELSE IF i <= Len(chunks) THEN chunks[i] ELSE 0]

\* write_object, statement by statement: h = sha256_bytes(data) and the test
\* os.path.exists(obj_path); open(obj_path, "wb"); f.write(data) up to the
\* close; return h.
put_exists(p) ==
    /\ procs[p].cmd = "put" /\ procs[p].pc = "exists"
    /\ LET h == sha256_bytes(procs[p].arg)
       IN procs' = [procs EXCEPT ![p].pc = IF has_object(objects, h) THEN "done" ELSE "open",
                                 ![p].ret = IF has_object(objects, h) THEN h ELSE None]
    /\ UNCHANGED <<repo, objects, HEAD, index, revoked, files, tampered, out>>

put_open(p) ==
    /\ procs[p].cmd = "put" /\ procs[p].pc = "open"
    /\ LET h == sha256_bytes(procs[p].arg)
       IN objects' = [d \in DOMAIN objects \cup {h} |->
                         IF d = h THEN file_of(procs[p].arg, <<>>) ELSE objects[d]]
    /\ procs' = [procs EXCEPT ![p].pc = "write", ![p].loc = 1, ![p].wrote = TRUE]
    /\ UNCHANGED <<repo, HEAD, index, revoked, files, tampered, out>>

put_write(p) ==
    /\ procs[p].cmd = "put" /\ procs[p].pc = "write"
    /\ LET h == sha256_bytes(procs[p].arg)
           k == procs[p].loc
       IN /\ objects' = [objects EXCEPT
                            ![h] = file_of(procs[p].arg, write_chunk(chunks_of(objects[h]), k))]
          /\ procs' = IF k = 1 THEN [procs EXCEPT ![p].loc = 2]
                      ELSE [procs EXCEPT ![p].pc = "done", ![p].ret = h]
    /\ UNCHANGED <<repo, HEAD, index, revoked, files, tampered, out>>

\* Two processes put byte strings, the same or not, into a store that holds
\* some of them already.
RaceProcs == {"p1", "p2"}
RaceBytes == Contents \cup {Garbage}

InitRace ==
    /\ repo = TRUE
    /\ objects \in {[d \in {sha256_bytes(b) : b \in S} |-> d[2]] : S \in SUBSET RaceBytes}
    /\ HEAD = None
    /\ index = <<>>
    /\ revoked = <<>>
    /\ files = <<>>
    /\ tampered = 0
    /\ out = Printed("init", "ok")
    /\ procs \in [RaceProcs -> {Proc("put", "exists", b) : b \in RaceBytes}]

NextRace ==
    \/ \E p \in RaceProcs : put_exists(p)
    \/ \E p \in RaceProcs : put_open(p)
    \/ \E p \in RaceProcs : put_write(p)

SpecRace == InitRace /\ [][NextRace]_vars

\* cmd_revoke, statement by statement: read_object(commit_hash) as the test for
\* the commit; revoked = read_json(REVOKE_FILE) and the membership test;
\* revoked.append(commit_hash) and write_json(REVOKE_FILE, revoked).
revoke_exists(p) ==
    /\ procs[p].cmd = "revoke" /\ procs[p].pc = "exists"
    /\ procs' = IF has_object(objects, procs[p].arg)
                  THEN [procs EXCEPT ![p].pc = "load"]
                  ELSE [procs EXCEPT ![p].pc = "done", ![p].ret = "CommitNotFound"]
    /\ UNCHANGED <<repo, objects, HEAD, index, revoked, files, tampered, out>>

revoke_load(p) ==
    /\ procs[p].cmd = "revoke" /\ procs[p].pc = "load"
    /\ procs' = IF procs[p].arg \in Range(revoked)
                  THEN [procs EXCEPT ![p].pc = "done", ![p].loc = revoked,
                                     ![p].ret = "AlreadyRevoked"]
                  ELSE [procs EXCEPT ![p].pc = "store", ![p].loc = revoked]
    /\ UNCHANGED <<repo, objects, HEAD, index, revoked, files, tampered, out>>

\* The list written: the one the process loaded, with its digest appended.
\* Mutant: the list is read again under a lock at the moment it is written.
stored_list_reloaded(loaded, current, commit_hash) == Append(current, commit_hash)
stored_list(loaded, current, commit_hash) == Append(loaded, commit_hash)

revoke_store(p) ==
    /\ procs[p].cmd = "revoke" /\ procs[p].pc = "store"
    /\ revoked' = stored_list(procs[p].loc, revoked, procs[p].arg)
    /\ procs' = [procs EXCEPT ![p].pc = "done", ![p].ret = "ok", ![p].wrote = TRUE]
    /\ UNCHANGED <<repo, objects, HEAD, index, files, tampered, out>>

\* A history is committed by one user at a time, and then two revoke commands
\* are started together.
LostProcs == {"p1", "p2"}
LostEdits == {<< <<"a">>, Text("hello") >>, << <<"a">>, Text("x") >>}
LostAdds == {<< <<"a">> >>}

StartRevokes(args) ==
    /\ repo
    /\ procs = <<>>
    /\ procs' = [p \in LostProcs |-> Proc("revoke", "exists", args[p])]
    /\ UNCHANGED <<repo, objects, HEAD, index, revoked, files, tampered, out>>

NextLost ==
    \/ /\ procs = <<>>
       /\ \/ cmd_init
          \/ \E flist \in LostAdds : cmd_add(flist)
          \/ \E m \in Messages, t \in Times : cmd_commit(m, t)
          \/ \E e \in LostEdits : EditFile(e[1], e[2])
    \/ \E args \in [LostProcs -> CommitArgs] : StartRevokes(args)
    \/ \E p \in LostProcs : p \in DOMAIN procs /\ revoke_exists(p)
    \/ \E p \in LostProcs : p \in DOMAIN procs /\ revoke_load(p)
    \/ \E p \in LostProcs : p \in DOMAIN procs /\ revoke_store(p)

SpecLost == Init /\ [][NextLost]_vars

\* Working files that hold JSON: the user keeps, in file b, a copy of the commit
\* object of the first commit of a = "x", edited to name another parent.
TreeOfX ==
    sha256_bytes(json_dumps("list", <<[name |-> "a", type |-> "blob",
                                       hash |-> sha256_bytes(Text("x")), mode |-> "100644"]>>))
CommitLike ==
    json_dumps("dict", [tree |-> TreeOfX, parent |-> Unknown, message |-> "first",
                        time |-> "T1", revoked |-> FALSE])
JsonEdits == {<< <<"a">>, Text("x") >>, << <<"a">>, Text("hello") >>, << <<"b">>, CommitLike >>}
JsonAdds == {<< <<"a">> >>, << <<"b">> >>}

NextJson ==
    \/ cmd_init
    \/ \E flist \in JsonAdds : cmd_add(flist)
    \/ \E m \in Messages, t \in Times : cmd_commit(m, t)
    \/ \E target \in CommitArgs \cup {None} : cmd_checkout(target)
    \/ \E d \in CommitArgs : cmd_revoke(d)
    \/ cmd_verify
    \/ cmd_log
    \/ \E e \in JsonEdits : EditFile(e[1], e[2])

SpecJson == Init /\ [][NextJson]_vars

\* Tampering and revocation together: commits are revoked before and after an
\* object file is tampered with, and the repository is audited.
NextTrust ==
    \/ /\ tampered = 0
       /\ \/ cmd_init
          \/ \E flist \in AddArgs : cmd_add(flist)
          \/ \E m \in Messages, t \in Times : cmd_commit(m, t)
          \/ \E e \in Edits : EditFile(e[1], e[2])
    \/ \E d \in DOMAIN objects : \E raw \in TamperBytes(d) : Tamper(d, raw)
    \/ \E d \in DOMAIN objects : Delete(d)
    \/ \E d \in CommitArgs : cmd_revoke(d)
    \/ cmd_verify

SpecTrust == Init /\ [][NextTrust]_vars

\* Snapshots and the working tree: between commits and checkouts the user
\* rewrites files, removes them, and puts a directory where a file was or a file
\* where a directory was.
RestoreEdits == {<< <<"a">>, Text("hello") >>, << <<"a">>, Text("x") >>,
                 << <<"d">>, Text("x") >>, << <<"d", "b">>, Text("x") >>}
RestoreAdds == {<< <<"a">> >>, << <<"d">> >>, << <<"d", "b">> >>}
RestoreRemovals == {<<"a">>, <<"d">>}

NextRestore ==
    \/ cmd_init
    \/ \E flist \in RestoreAdds : cmd_add(flist)
    \/ \E m \in Messages, t \in Times : cmd_commit(m, t)
    \/ \E target \in CommitArgs \cup {None} : cmd_checkout(target)
    \/ \E d \in CommitArgs : cmd_revoke(d)
    \/ \E e \in RestoreEdits : EditFile(e[1], e[2])
    \/ \E path \in RestoreRemovals : RemovePath(path)

SpecRestore == Init /\ [][NextRestore]_vars

\* ---------------------------------------------------------------- claims
CheckoutArgs == CommitArgs \cup HeadWords \cup {None}
Resolved(target) == IF target \in HeadWords \cup {None} THEN HEAD ELSE target

\* The bytes whose digest is d, and the objects an untampered object refers to.
Original(d) == d[2]
Refs(d) ==
    IF Original(d).json = "dict"
      THEN {Original(d).val.tree, Original(d).val.parent} \ {None}
    ELSE IF Original(d).json = "list"
      THEN {Original(d).val[i].hash : i \in 1..Len(Original(d).val)}
    ELSE {}
RECURSIVE ReachIn(_, _)
ReachIn(ds, k) == IF k = 0 THEN ds ELSE ReachIn(ds \cup UNION {Refs(d) : d \in ds}, k - 1)
Reach(c) == ReachIn({c}, RecursionLimit)
Altered == {d \in DOMAIN objects : objects[d] # Original(d)}
StoredCommits == {d \in DOMAIN objects : IsCommitDigest(d)}
Findings(r) == {r.errors[i].obj : i \in 1..Len(r.errors)}

\* C1: a checkout whose target (a digest, or HEAD / no argument resolving to
\* HEAD) is in the revocation list prints RevokedCommit, writes no file of the
\* working tree and leaves HEAD unchanged.
C1_RevocationGate ==
    [][\A target \in CheckoutArgs :
          (cmd_checkout(target) /\ Resolved(target) \in Range(revoked))
            => (out'.code = "RevokedCommit" /\ files' = files /\ HEAD' = HEAD)]_vars

\* C1 witness: HEAD is a revoked commit, other files have been edited since, and
\* the last command was a checkout refused as revoked.
C1_Witness ==
    /\ out = Printed("checkout", "RevokedCommit")
    /\ IsCommitDigest(HEAD)
    /\ HEAD \in Range(revoked)

\* C2: when the bytes of exactly one stored object O have been replaced, the
\* audit of every commit C that O is reachable from returns not clean, one of its
\* findings reports O and none reports another object.
C2_TamperDetection ==
    \A c \in StoredCommits : \A o \in Altered :
        (Altered = {o} /\ o \in Reach(c) /\ Reach(c) \subseteq DOMAIN objects)
          => LET r == verify_commit(objects, c, {c}, 1)
             IN /\ r.raised = "none"
                /\ ~r.ok
                /\ Findings(r) = {o}

\* The parent recorded in the bytes now stored under d, if they are a commit.
ParentOf(d) ==
    IF has_object(objects, d) /\ read_object(objects, d).json = "dict"
      THEN read_object(objects, d).val.parent
      ELSE None
RECURSIVE OnParentCycle(_, _)
OnParentCycle(d, seen) ==
    IF d = None THEN FALSE
    ELSE IF d \in seen THEN TRUE
    ELSE OnParentCycle(ParentOf(d), seen \cup {d})
CycleReported(r) ==
    \E i \in 1..Len(r.errors) : r.errors[i].msg = "Cycle detected in commit parents at"

\* C3: whenever the parent links that start at a stored commit run into a cycle
\* (of any length, a commit that is its own parent included), the audit of that
\* commit returns, not clean, with a cycle finding.
C3_CycleSafety ==
    \A c \in StoredCommits :
        OnParentCycle(c, {})
          => LET r == verify_commit(objects, c, {c}, 1)
             IN r.raised = "none" /\ ~r.ok /\ CycleReported(r)

\* C4: in every state reached by the commands alone, with no out-of-band change
\* to the stored objects, the audit started at HEAD (as cmd_verify starts it) is
\* clean and has no finding.
C4_HonestClean ==
    HEAD # None => verify_commit(objects, HEAD, {HEAD}, 1) = Audit(<<>>)

SameBytes(b) == {d \in DOMAIN objects : objects[d] = b}
C6_WriteOnce ==
    [][/\ \A d \in DOMAIN objects : d \in DOMAIN objects' /\ objects'[d] = objects[d]
       /\ \A d \in DOMAIN objects :
             write_object(objects, objects[d]) = [hash |-> d, objects |-> objects]
       /\ \A d \in DOMAIN objects' : Cardinality(SameBytes(objects[d])') <= 1]_vars

\* C6 witness: two staged files with the same content have been committed and
\* one object holds that content.
C6_Witness ==
    /\ out = Printed("commit", "ok")
    /\ index = << <<"a">>, <<"d", "b">> >>
    /\ files[<<"a">>] = files[<<"d", "b">>]
    /\ Cardinality(SameBytes(files[<<"a">>])) = 1

\* Byte strings to put: file contents, junk, and whatever is or was stored.
PutBytes ==
    Contents \cup {Garbage, Number} \cup {Original(d) : d \in DOMAIN objects}
      \cup {objects[d] : d \in DOMAIN objects}

\* C7 as claimed: in every store state, put(b) returns Hash(b) and get of that
\* digest returns b.
C7_RoundTripAnyStore ==
    \A b \in PutBytes :
        LET w == write_object(objects, b)
        IN w.hash = sha256_bytes(b) /\ read_object(w.objects, w.hash) = b

\* C7 as amended: in every store state in which the object file named Hash(b),
\* if there is one, still holds b, put(b) returns Hash(b) and get of that digest
\* returns b.
C7_RoundTrip ==
    \A b \in PutBytes :
        LET h == sha256_bytes(b)
            w == write_object(objects, b)
        IN (has_object(objects, h) => read_object(objects, h) = b)
             => /\ w.hash = h
                /\ has_object(w.objects, w.hash)
                /\ read_object(w.objects, w.hash) = b

\* C7 witness: status has put the staged files into a store in which another
\* object was altered, and each of them reads back as written.
C7_Witness ==
    /\ out = Printed("status", "Matches")
    /\ Altered # {}
    /\ \A p \in Range(index) :
          /\ has_object(objects, sha256_bytes(files[p]))
          /\ read_object(objects, sha256_bytes(files[p])) = files[p]

\* C8: for the staged paths in any order the builder returns the root digest it
\* returns for the index as stored, a second build over the store the first one
\* left returns it again, and it is the tree of the commit made from the index.
C8_TreeDeterminism ==
    \A perm \in Perms(index) :
        LET b0 == build_tree_from_index(files, objects, index)
            b1 == build_tree_from_index(files, objects, perm)
            b2 == build_tree_from_index(files, b1.objects, perm)
        IN /\ b1.ok /\ b2.ok
           /\ b1.hash = b0.hash
           /\ b2.hash = b1.hash
           /\ out = Printed("commit", "ok") => read_object(objects, HEAD).val.tree = b0.hash

\* C8 witness: a commit has been built from four staged paths, two of them in
\* one directory, so that both the root and the sub-tree sort their entries.
C8_Witness ==
    /\ out = Printed("commit", "ok")
    /\ Len(index) = 4
    /\ Len(read_object(objects, read_object(objects, HEAD).val.tree).val) = 3

C10_FailFast ==
    [][/\ \A m \in Messages, t \in Times :
             (cmd_commit(m, t) /\ index = <<>>)
               => (out'.code = "EmptyStagingArea" /\ HEAD' = HEAD /\ objects' = objects)
       /\ \A target \in CommitArgs \cup {None} :
             /\ (cmd_checkout(target) /\ ~has_object(objects, Resolved(target)))
                  => (HEAD' = HEAD /\ files' = files /\ out'.code # "ok")
             /\ (cmd_checkout(target) /\ out'.code = "FileNotFoundError")
                  => /\ HEAD' = HEAD
                     /\ DOMAIN files \subseteq DOMAIN files'
                     /\ \A q \in DOMAIN files' :
                           \/ (q \in DOMAIN files /\ files'[q] = files[q])
                           \/ files'[q] = Dir
                           \/ \E d \in DOMAIN objects : files'[q] = objects[d]]_vars

\* C10 witness: a checkout has stopped at a missing object after HEAD's commit
\* was made, and the working tree holds a file that differs from HEAD's tree.
C10_Witness ==
    /\ out = Printed("checkout", "FileNotFoundError")
    /\ IsCommitDigest(HEAD)
    /\ has_object(objects, HEAD)
    /\ \E d \in Reach(HEAD) : ~has_object(objects, d)
    /\ <<"a">> \in DOMAIN files
    /\ sha256_bytes(files[<<"a">>]) \notin Reach(HEAD)

\* The files a tree records: each path below cur_path with the digest of its blob.
RECURSIVE Snapshot(_, _)
Snapshot(tree_hash, cur_path) ==
    LET entries == Original(tree_hash).val
    IN UNION {IF entries[i].type = "blob"
                THEN {[path |-> Append(cur_path, entries[i].name), hash |-> entries[i].hash]}
                ELSE Snapshot(entries[i].hash, Append(cur_path, entries[i].name)) :
              i \in 1..Len(entries)}

\* C11: with the stored objects intact, a checkout of a commit made by the
\* commit command and not revoked prints success, sets HEAD to that commit and
\* leaves every path of the commit's tree holding the bytes committed for it,
\* whatever the working tree held before.
C11_RestoreRoundTrip ==
    [][\A c \in StoredCommits :
          (cmd_checkout(c) /\ c \notin Range(revoked))
            => /\ out'.code = "ok"
               /\ HEAD' = c
               /\ \A e \in Snapshot(Original(c).val.tree, <<>>) :
                     exists(files', e.path) /\ files'[e.path] = Original(e.hash)]_vars

\* C12: a step that leaves the object store as it is, a revocation above all,
\* leaves the result of the audit of every commit (the flag, the findings, or
\* the exception) as it was.
C12_VerifyIgnoresTrust ==
    [][objects' = objects
         => \A c \in StoredCommits \cup {Unknown} : verify_top(c)' = verify_top(c)]_vars

\* C12 witness: HEAD has just been revoked in a store with an altered object,
\* and its audit is not clean.
C12_Witness ==
    /\ out = Printed("revoke", "ok")
    /\ IsCommitDigest(HEAD)
    /\ HEAD \in Range(revoked)
    /\ Altered # {}
    /\ verify_top(HEAD).raised = "none"
    /\ ~verify_top(HEAD).ok

\* C13: a run of verify in a repository, whatever it prints, leaves the object
\* store, HEAD, the revocation list, the index and the working tree as they were.
C13_VerifyReadOnly ==
    [][cmd_verify => UNCHANGED <<objects, HEAD, revoked, index, files>>]_vars

\* C13 witness: verify has reported findings in a store with an altered object.
C13_Witness ==
    /\ out = Printed("verify", "FAILED")
    /\ Altered # {}
    /\ HEAD # None

\* C14: a revoke of a digest that is not that of a stored commit object prints
\* CommitNotFound and leaves the revocation list as it was, a revoke of a digest
\* already in the list leaves it as it was, and the list holds digests of stored
\* commit objects only, each once.
C14_RevokePreconditions ==
    [][/\ \A d \in CommitArgs :
             /\ (cmd_revoke(d) /\ d \notin StoredCommits)
                   => (out'.code = "CommitNotFound" /\ revoked' = revoked)
             /\ (cmd_revoke(d) /\ d \in Range(revoked)) => revoked' = revoked
       /\ Range(revoked') \subseteq StoredCommits'
       /\ Cardinality(Range(revoked')) = Len(revoked')]_vars

\* C15: once the processes that put a byte string b have all returned, however
\* their steps were interleaved, each has returned Hash(b) and the object file
\* named Hash(b) holds b.
C15_RacingPuts ==
    Finished =>
        \A p \in DOMAIN procs :
            procs[p].cmd = "put"
              => /\ procs[p].ret = sha256_bytes(procs[p].arg)
                 /\ has_object(objects, procs[p].ret)
                 /\ read_object(objects, procs[p].ret) = procs[p].arg

\* C15 witness: two processes have put the same bytes, both found the file
\* absent and opened it for writing, and both have returned.
C15_Witness ==
    /\ Finished
    /\ DOMAIN procs = RaceProcs
    /\ procs["p1"].arg = procs["p2"].arg
    /\ procs["p1"].wrote /\ procs["p2"].wrote

\* C16: in a process that calls verify_commit(c) twice without a visited set,
\* over the same store, the second call returns what the first returned.
C16_VerifyIndependent ==
    \A c \in StoredCommits :
        LET first == verify_commit(objects, c, {}, 1)
            default == verify_commit_visited(objects, c, {}, 1)
            second == verify_commit(objects, c, default, 1)
        IN second = first

\* C17: whatever bytes the object files hold, the audit of every stored commit
\* returns a flag and a list of findings: it neither raises nor exhausts the
\* interpreter's stack.
C17_VerifierTerminates ==
    \A c \in StoredCommits : verify_top(c).raised = "none"

C19_StatusReadOnly ==
    [][cmd_status => UNCHANGED <<objects, HEAD, revoked, index>>]_vars

\* The parent links from d lead through stored commit objects to an absent parent.
RECURSIVE ChainEnds(_, _)
ChainEnds(d, seen) ==
    IF d = None THEN TRUE
    ELSE IF d \in seen \/ ~has_object(objects, d) THEN FALSE
    ELSE IF read_object(objects, d).json # "dict" THEN FALSE
    ELSE ChainEnds(read_object(objects, d).val.parent, seen \cup {d})

\* C20: in every state reached by the commands alone, HEAD is None or names a
\* stored commit object, the parent links from HEAD lead through stored commit
\* objects to an absent parent, and the walk of log over them ends normally.
C20_HeadWellFormed ==
    HEAD # None
      => /\ has_object(objects, HEAD)
         /\ IsCommitDigest(HEAD)
         /\ ChainEnds(HEAD, {})
         /\ log_walk(objects, revoked, HEAD, {}, <<>>).code = "ok"
====
